---- MODULE Spec2Model ----
(***************************************************************************)
(* Model of the combinational ALU of alu.py (class Alu) together with the  *)
(* simulation driver that feeds it.                                        *)
(*                                                                         *)
(* Every statement of Alu.elaborate is in the combinational domain: in one *)
(* pass over the statements a driven signal that the active Case does not  *)
(* assign takes its reset value, right-hand sides read the current value   *)
(* of the signals, and passes repeat until no signal changes.  An          *)
(* evaluation is what the outputs show once the passes have settled, which *)
(* is what a driver sees after each Delay.                                 *)
(***************************************************************************)
EXTENDS Integers, Naturals, Sequences, FiniteSets, TLC

\* Largest width of the freely driven ALU instances.
MaxWidth == 2

\* Alu.__init__(size=8): the width of the instance built under __main__.
DefaultSize == 8

\* Signal(AluFunc) is as wide as the largest member (17) needs.
FuncWidth == 5

\* class AluFunc
NONE == 0
ADD == 1
SUB == 2
NEG == 8
AND == 9
OR == 10
ROL == 11
ROR == 12
LSL == 13
LSR == 14
ASR == 15
CLC == 16
CLV == 17

VARIABLES size, A, B, func, OUT, zero, carry, negative, overflow, signed,
          pc, rolOf

vars == <<size, A, B, func, OUT, zero, carry, negative, overflow, signed,
          pc, rolOf>>

----------------------------------------------------------------------------
\* Bit-vector helpers (nmigen Value operators on unsigned signals).

Pow2(n) == 2 ^ n

\* x[i]
Bit(x, i) == (x \div Pow2(i)) % 2

\* x[:n]
Low(x, n) == x % Pow2(n)

\* a ^ b, a == b, a != b on one-bit values
Xor(p, q) == (p + q) % 2
EqBit(p, q) == IF p = q THEN 1 ELSE 0
NeBit(p, q) == IF p = q THEN 0 ELSE 1

RECURSIVE BitAnd(_, _, _)
BitAnd(x, y, n) ==
    IF n = 0 THEN 0
    ELSE (x % 2) * (y % 2) + 2 * BitAnd(x \div 2, y \div 2, n - 1)

RECURSIVE BitOr(_, _, _)
BitOr(x, y, n) ==
    IF n = 0 THEN 0
    ELSE (IF (x % 2) + (y % 2) > 0 THEN 1 ELSE 0)
         + 2 * BitOr(x \div 2, y \div 2, n - 1)

\* ~x on an n-bit signal
BitNot(x, n) == Pow2(n) - 1 - x

\* a + b and a - b of two w-bit unsigned values: a (w+1)-bit unsigned value
Add(a, b, w) == (a + b) % Pow2(w + 1)
Sub(a, b, w) == (a - b + Pow2(w + 1)) % Pow2(w + 1)

\* The values the func signal can carry, and those AluFunc enumerates.
FuncValues == 0 .. (Pow2(FuncWidth) - 1)
AluFunc == {NONE, ADD, SUB, NEG, AND, OR, ROL, ROR, LSL, LSR, ASR, CLC, CLV}

----------------------------------------------------------------------------
\* The signals the module drives.  s is their current value.

\* Signal(size, reset=0), Signal(), Signal(reset=0): all reset to 0.
ResetSignals ==
    [OUT |-> 0, zero |-> 0, carry |-> 0, negative |-> 0, overflow |-> 0,
     signed |-> 0]

\* Each Case gives the assignments it makes; a signal it does not name is
\* not assigned by the Switch in that pass.

\* CaseADD with the sum taken in w bits, so that bit w is never set.
CaseADD_NarrowSum(w, a, b, s) ==
    [OUT |-> Low(Low(a + b, w), w),
     carry |-> Bit(Low(a + b, w), w),
     overflow |-> EqBit(Bit(a, w - 1), Bit(b, w - 1))
                  * NeBit(Bit(a, w - 1), Bit(s.OUT, w - 1))]

CaseADD(w, a, b, s) ==
    [OUT |-> Low(Add(a, b, w), w),
     carry |-> Bit(Add(a, b, w), w),
     overflow |-> EqBit(Bit(a, w - 1), Bit(b, w - 1))
                  * NeBit(Bit(a, w - 1), Bit(s.OUT, w - 1))]

\* CaseSUB with the overflow test of ADD (equal operand signs).
CaseSUB_AddRule(w, a, b, s) ==
    [OUT |-> Low(Sub(a, b, w), w),
     carry |-> Bit(Sub(a, b, w), w),
     overflow |-> EqBit(Bit(a, w - 1), Bit(b, w - 1))
                  * NeBit(Bit(a, w - 1), Bit(s.OUT, w - 1))]

CaseSUB(w, a, b, s) ==
    [OUT |-> Low(Sub(a, b, w), w),
     carry |-> Bit(Sub(a, b, w), w),
     overflow |-> NeBit(Bit(a, w - 1), Bit(b, w - 1))
                  * NeBit(Bit(a, w - 1), Bit(s.OUT, w - 1))]

CaseNEG(w, a, b, s) == [OUT |-> BitNot(a, w)]

CaseAND(w, a, b, s) == [OUT |-> BitAnd(a, b, w)]

CaseOR(w, a, b, s) == [OUT |-> BitOr(a, b, w)]

CaseROL(w, a, b, s) ==
    [OUT |-> Low(BitOr(2 * a, s.carry, w + 1), w),
     carry |-> Bit(a, w - 1)]

\* CaseROR without the carry term: a plain shift.
CaseROR_NoCarryIn(w, a, b, s) ==
    [OUT |-> Low(a \div 2, w),
     carry |-> Bit(a, 0)]

CaseROR(w, a, b, s) ==
    [OUT |-> BitOr(a \div 2, Low(s.carry * Pow2(w - 1), w), w),
     carry |-> Bit(a, 0)]

CaseLSL(w, a, b, s) ==
    [OUT |-> Low(2 * a, w),
     carry |-> Bit(a, w - 1)]

CaseLSR(w, a, b, s) ==
    [OUT |-> Low(a \div 2, w),
     carry |-> Bit(a, 0)]

CaseASR(w, a, b, s) ==
    [OUT |-> Low(BitOr(Low(a, w - 1) \div 2,
                       Bit(a, w - 1) * Pow2(w - 1), w), w),
     carry |-> Bit(a, 0)]

\* CaseCLC that also passes A through, as the Default case does.
CaseCLC_PassA(w, a, b, s) == [OUT |-> a, carry |-> 0]

CaseCLC(w, a, b, s) == [carry |-> 0]

CaseCLV(w, a, b, s) == [overflow |-> 0]

\* CaseDefault passing the wrong operand.
CaseDefault_PassB(w, a, b, s) == [OUT |-> b]

CaseDefault(w, a, b, s) == [OUT |-> a]

\* with m.Switch(self.func)
Switch(w, a, b, f, s) ==
    CASE f = ADD -> CaseADD(w, a, b, s)
      [] f = SUB -> CaseSUB(w, a, b, s)
      [] f = NEG -> CaseNEG(w, a, b, s)
      [] f = AND -> CaseAND(w, a, b, s)
      [] f = OR  -> CaseOR(w, a, b, s)
      [] f = ROL -> CaseROL(w, a, b, s)
      [] f = ROR -> CaseROR(w, a, b, s)
      [] f = LSL -> CaseLSL(w, a, b, s)
      [] f = LSR -> CaseLSR(w, a, b, s)
      [] f = ASR -> CaseASR(w, a, b, s)
      [] f = CLC -> CaseCLC(w, a, b, s)
      [] f = CLV -> CaseCLV(w, a, b, s)
      [] OTHER   -> CaseDefault(w, a, b, s)

\* The three unconditional assignments ahead of the Switch.
Derived(w, s) ==
    [signed |-> Xor(s.negative, s.overflow),
     zero |-> IF s.OUT = 0 THEN 1 ELSE 0,
     negative |-> Bit(s.OUT, w - 1)]

\* Pass in which a signal that is not assigned keeps its value (a latch)
\* rather than taking its reset value.
Pass_Latched(w, a, b, f, s) ==
    LET d == Derived(w, s)
        c == Switch(w, a, b, f, s)
    IN  [k \in DOMAIN ResetSignals |->
            IF k \in DOMAIN c THEN c[k]
            ELSE IF k \in DOMAIN d THEN d[k]
            ELSE s[k]]

\* One pass over the statements of elaborate: every driven signal starts
\* from its reset value and the assignments that are active replace it.
Pass(w, a, b, f, s) ==
    LET d == Derived(w, s)
        c == Switch(w, a, b, f, s)
    IN  [k \in DOMAIN ResetSignals |->
            IF k \in DOMAIN c THEN c[k]
            ELSE IF k \in DOMAIN d THEN d[k]
            ELSE ResetSignals[k]]

\* Settle that stops after a single pass.
Settle_OnePass(w, a, b, f, s) == Pass(w, a, b, f, s)

\* Passes repeat until the signals no longer change.
RECURSIVE Settle(_, _, _, _, _)
Settle(w, a, b, f, s) ==
    LET n == Pass(w, a, b, f, s)
    IN  IF n = s THEN s ELSE Settle(w, a, b, f, n)

\* The current value of the driven signals, as one record.
Signals ==
    [OUT |-> OUT, zero |-> zero, carry |-> carry, negative |-> negative,
     overflow |-> overflow, signed |-> signed]

----------------------------------------------------------------------------
\* The stimulus of process(): the inputs in force at each Delay.
Script ==
    << [A |-> 1,   B |-> 85, func |-> NONE],
       [A |-> 1,   B |-> 85, func |-> ADD],
       [A |-> 1,   B |-> 85, func |-> CLV],
       [A |-> 1,   B |-> 85, func |-> CLC],
       [A |-> 1,   B |-> 85, func |-> SUB],
       [A |-> 1,   B |-> 85, func |-> CLV],
       [A |-> 1,   B |-> 85, func |-> CLC],
       [A |-> 1,   B |-> 85, func |-> NEG],
       [A |-> 1,   B |-> 85, func |-> AND],
       [A |-> 127, B |-> 1,  func |-> ADD] >>

\* The inputs take new values and the outputs settle on them, starting
\* from the values the signals had.
Evaluate(a, b, f) ==
    \E r \in {Settle(size, a, b, f, Signals)} :
        /\ A' = a
        /\ B' = b
        /\ func' = f
        /\ OUT' = r.OUT
        /\ zero' = r.zero
        /\ carry' = r.carry
        /\ negative' = r.negative
        /\ overflow' = r.overflow
        /\ signed' = r.signed
        /\ UNCHANGED size

\* After construction every signal holds its reset value and the
\* combinational outputs have settled on the reset inputs.
Init ==
    /\ \/ size \in 1 .. MaxWidth /\ pc = -1
       \/ size = DefaultSize /\ pc = 0
    /\ A = 0
    /\ B = 0
    /\ func = NONE
    /\ \E r \in {Settle(size, 0, 0, NONE, ResetSignals)} :
           /\ OUT = r.OUT
           /\ zero = r.zero
           /\ carry = r.carry
           /\ negative = r.negative
           /\ overflow = r.overflow
           /\ signed = r.signed
    /\ rolOf = -1

\* A driver puts new operands on A and B and waits (process, lines
\* 107-109).  rolOf is history: when the new A is the OUT that a ROL
\* evaluation has just given, it holds the operand of that ROL, and else -1.
SetOperands(a, b) ==
    /\ pc = -1
    /\ Evaluate(a, b, func)
    /\ rolOf' = IF func = ROL /\ a = OUT THEN A ELSE -1
    /\ UNCHANGED pc

\* A driver selects another function and waits (process, lines 110-111).
SetFunc(f) ==
    /\ pc = -1
    /\ Evaluate(A, B, f)
    /\ UNCHANGED <<pc, rolOf>>

\* One step of process(): the assignments up to the next Delay.
ProcessStep ==
    /\ pc >= 0
    /\ pc < Len(Script)
    /\ Evaluate(Script[pc + 1].A, Script[pc + 1].B, Script[pc + 1].func)
    /\ pc' = pc + 1
    /\ UNCHANGED rolOf

Next ==
    \/ \E a \in 0 .. (Pow2(size) - 1), b \in 0 .. (Pow2(size) - 1) :
          SetOperands(a, b)
    \/ \E f \in FuncValues : SetFunc(f)
    \/ ProcessStep

Spec == Init /\ [][Next]_vars

TypeOK ==
    /\ size \in (1 .. MaxWidth) \cup {DefaultSize}
    /\ A \in 0 .. (Pow2(size) - 1)
    /\ B \in 0 .. (Pow2(size) - 1)
    /\ func \in FuncValues
    /\ OUT \in 0 .. (Pow2(size) - 1)
    /\ {zero, carry, negative, overflow, signed} \subseteq {0, 1}

----------------------------------------------------------------------------
\* Properties of the evaluations.

\* x read as a w-bit two's-complement number
SignedValue(x, w) == IF x >= Pow2(w - 1) THEN x - Pow2(w) ELSE x

\* the numbers a w-bit two's-complement word can hold
SignedRange(w) == (0 - Pow2(w - 1)) .. (Pow2(w - 1) - 1)

\* C1: for ADD and SUB the result is a (W+1)-bit value whose low W bits are
\* OUT and whose bit W is carry: ADD gives carry * 2^W + OUT = A + B, SUB
\* gives carry * 2^W + OUT = (A - B) mod 2^(W+1), so that carry = 1 exactly
\* when A < B; with W = 8, 0x01 + 0x55 gives OUT = 0x56 and carry = 0.
C1_AddSubCarry ==
    /\ func = ADD => carry * Pow2(size) + OUT = A + B
    /\ func = SUB =>
         /\ carry * Pow2(size) + OUT =
              (IF A >= B THEN A - B ELSE A - B + Pow2(size + 1))
         /\ (carry = 1) <=> (A < B)
    /\ (size = 8 /\ func = ADD /\ A = 1 /\ B = 85) => (OUT = 86 /\ carry = 0)

\* C1 witness: a subtraction that borrows.
C1_Witness == func = SUB /\ A < B /\ carry = 1 /\ OUT = A - B + Pow2(size)

\* C2: for ADD and SUB overflow is 1 exactly when the exact signed sum or
\* difference of A and B does not fit in W bits, which is the sign-bit rule;
\* with W = 8, 0b01111111 + 0b00000001 gives OUT = 0b10000000, carry = 0,
\* overflow = 1 and negative = 1.
C2_SignedOverflow ==
    /\ func = ADD =>
         /\ (overflow = 1) <=>
              (SignedValue(A, size) + SignedValue(B, size)
                  \notin SignedRange(size))
         /\ (overflow = 1) <=>
              (/\ Bit(A, size - 1) = Bit(B, size - 1)
               /\ Bit(OUT, size - 1) # Bit(A, size - 1))
    /\ func = SUB =>
         /\ (overflow = 1) <=>
              (SignedValue(A, size) - SignedValue(B, size)
                  \notin SignedRange(size))
         /\ (overflow = 1) <=>
              (/\ Bit(A, size - 1) # Bit(B, size - 1)
               /\ Bit(OUT, size - 1) # Bit(A, size - 1))
    /\ (size = 8 /\ func = ADD /\ A = 127 /\ B = 1) =>
         (OUT = 128 /\ carry = 0 /\ overflow = 1 /\ negative = 1)

\* C2 witness: the last evaluation of process(), 127 + 1 in 8 bits.
C2_Witness ==
    /\ size = 8 /\ func = ADD /\ A = 127 /\ B = 1
    /\ OUT = 128 /\ overflow = 1 /\ negative = 1

\* C3: ROL and ROR rotate through carry: the bit that enters OUT (bit 0 for
\* ROL, bit W-1 for ROR) is the carry the driver saw before the evaluation,
\* and the carry that leaves is bit W-1 of A (ROL) or bit 0 of A (ROR).
C3_RotateThroughCarry ==
    [][ /\ func' = ROL =>
             (Bit(OUT', 0) = carry /\ carry' = Bit(A', size - 1))
        /\ func' = ROR =>
             (Bit(OUT', size - 1) = carry /\ carry' = Bit(A', 0)) ]_vars

\* C4: NONE and every selector value that AluFunc does not enumerate
\* (3..7 and 18..31) give OUT = A with carry = 0 and overflow = 0.
C4_DefaultPassThrough ==
    func \in ({NONE} \cup (3 .. 7) \cup (18 .. 31)) =>
        (OUT = A /\ carry = 0 /\ overflow = 0)

\* C4 witness: an unenumerated selector passing a non-zero A through.
C4_Witness == func = 31 /\ A # 0 /\ B # A /\ OUT = A /\ carry = 0

\* C5: the outputs of an evaluation depend on that evaluation's inputs only:
\* whatever was evaluated before, they are the outputs that a freshly reset
\* ALU gives for the same (W, A, B, func).
C5_Stateless == Signals = Settle(size, A, B, func, ResetSignals)

\* C5 witness: the CLV that process() evaluates right after 0x01 - 0x55,
\* which left carry = 1.
C5_Witness == pc = 6 /\ func = CLV /\ A = 1 /\ B = 85 /\ carry = 0

\* C6: for every selector, zero = 1 iff OUT = 0, negative is bit W-1 of OUT
\* and signed is negative XOR overflow, all of the same evaluation.
C6_DerivedFlags ==
    /\ (zero = 1) <=> (OUT = 0)
    /\ negative = Bit(OUT, size - 1)
    /\ signed = Xor(negative, overflow)

\* C6 witness: a subtraction that overflows to a non-negative result.
C6_Witness ==
    func = SUB /\ overflow = 1 /\ negative = 0 /\ signed = 1 /\ zero = 0

\* C7: CLC forces carry to 0 and leaves overflow as it was before the
\* evaluation; CLV forces overflow to 0 and leaves carry as it was.
C7_ClearOnlyOneFlag ==
    [][ /\ func' = CLC => (carry' = 0 /\ overflow' = overflow)
        /\ func' = CLV => (overflow' = 0 /\ carry' = carry) ]_vars

\* C8: ROL on A followed by ROR on the result of that ROL gives OUT = A.
C8_RotateRoundTrip == (rolOf # -1 /\ func = ROR) => OUT = rolOf

\* C8 witness: a round trip of an operand that the rotation changes.
C8_Witness == rolOf # -1 /\ func = ROR /\ OUT = rolOf /\ A # rolOf

\* C9: ASR shifts right by one and fills with the sign: OUT bit i is A bit
\* i+1 below the top bit, OUT bit W-1 is A bit W-1, carry is bit 0 of A and
\* overflow is 0.
C9_ArithmeticShiftRight ==
    func = ASR =>
        /\ \A i \in 0 .. (size - 2) : Bit(OUT, i) = Bit(A, i + 1)
        /\ Bit(OUT, size - 1) = Bit(A, size - 1)
        /\ carry = Bit(A, 0)
        /\ overflow = 0

\* C10: CLC and CLV do not assign OUT, which takes its reset value: OUT = 0
\* whatever A and B are, hence zero = 1, negative = 0 and signed = 0.
C10_ClearOpsResetOut ==
    func \in {CLC, CLV} =>
        (OUT = 0 /\ zero = 1 /\ negative = 0 /\ signed = 0)

\* C10 witness: CLC with a non-zero A.
C10_Witness == func = CLC /\ A # 0 /\ OUT = 0 /\ zero = 1

====
